---- MODULE Spec2Model ----
(***************************************************************************)
(* Merkle tree accumulator over a charity's confirmed donations            *)
(* (backend/donations/merkle_utils.py) and the HTTP handlers that use it   *)
(* (backend/donations/views.py).                                           *)
(*                                                                         *)
(* Strings are TLA+ strings and \o is Python's str +.  SHA-256 is modelled *)
(* as an ideal, collision-free digest: _hash(s) wraps s in "h(" ... ")",   *)
(* so two digests are equal exactly when their inputs are equal, and the   *)
(* concatenation of two digests splits back in one way only, as the        *)
(* concatenation of two 64-character hex digests does.                     *)
(***************************************************************************)
EXTENDS Integers, Sequences, FiniteSets, Bags, TLC

\* ------------------------------------------------------------------ bounds
\* Longest record list handed to MerkleTree(data) in SpecTree.
MaxLeaves == 5
\* Most donations the database holds in Spec.
MaxDonations == 2
\* Most charities the database holds in Spec.
MaxCharities == 2

\* ------------------------------------------------------------ small helpers
\* Python's None / a present value, for Optional fields.
None == <<>>
Some(x) == <<x>>

\* str(n) for a natural number n.
Digit(d) == CASE d = 0 -> "0" [] d = 1 -> "1" [] d = 2 -> "2" [] d = 3 -> "3"
              [] d = 4 -> "4" [] d = 5 -> "5" [] d = 6 -> "6" [] d = 7 -> "7"
              [] d = 8 -> "8" [] d = 9 -> "9"
RECURSIVE IntToStr(_)
IntToStr(n) == IF n < 10 THEN Digit(n) ELSE IntToStr(n \div 10) \o Digit(n % 10)

\* 2^k
RECURSIVE Pow2(_)
Pow2(k) == IF k = 0 THEN 1 ELSE 2 * Pow2(k - 1)

\* ------------------------------------------------------- MerkleTree engine
\* MerkleTree._hash and the hashlib.sha256(...).hexdigest() of verify_proof.
_hash(s) == "h(" \o s \o ")"

\* MerkleNode(hash_value, left, right, data); left and right name the child
\* by its position in the level below.
MerkleNode(hash_value, left, right, data) ==
    [hash |-> hash_value, left |-> left, right |-> right, data |-> data]

\* The leaf level of _build_tree: one node per leaf hash, data "leaf_<i>".
LeafLevel(leaves) ==
    [k \in 1..Len(leaves) |->
        MerkleNode(leaves[k], None, None, Some("leaf_" \o IntToStr(k - 1)))]

\* ParentNode with the dangling node promoted unhashed instead of paired
\* with itself.
ParentNodeCarry(current_level, i) ==
    LET left     == current_level[i + 1]
        hasRight == i + 1 < Len(current_level)
    IN  MerkleNode(IF hasRight
                   THEN _hash(left.hash \o current_level[i + 2].hash)
                   ELSE left.hash,
                   Some(i),
                   IF hasRight THEN Some(i + 1) ELSE None,
                   None)

\* One pass of the pair loop's body for the 0-based position i.
ParentNode(current_level, i) ==
    LET left     == current_level[i + 1]
        hasRight == i + 1 < Len(current_level)
        right    == IF hasRight THEN current_level[i + 2] ELSE left
    IN  MerkleNode(_hash(left.hash \o right.hash),
                   Some(i),
                   IF hasRight THEN Some(i + 1) ELSE None,
                   None)

\* PairLoop stopping before a dangling last node: range(0, len - 1, 2).
RECURSIVE PairLoopDropOdd(_, _, _)
PairLoopDropOdd(current_level, i, next_level) ==
    IF i >= Len(current_level) - 1
    THEN next_level
    ELSE PairLoopDropOdd(current_level, i + 2,
                         Append(next_level, ParentNode(current_level, i)))

\* for i in range(0, len(current_level), 2): next_level.append(parent_node)
RECURSIVE PairLoop(_, _, _)
PairLoop(current_level, i, next_level) ==
    IF i >= Len(current_level)
    THEN next_level
    ELSE PairLoop(current_level, i + 2,
                  Append(next_level, ParentNode(current_level, i)))

\* while len(current_level) > 1: ... self.tree.append(next_level)
RECURSIVE LevelLoop(_, _)
LevelLoop(current_level, tree_) ==
    IF Len(current_level) > 1
    THEN LET next_level == PairLoop(current_level, 0, <<>>)
         IN  LevelLoop(next_level, Append(tree_, next_level))
    ELSE tree_

\* MerkleTree._build_tree: the list of levels, leaves first.
_build_tree(leaves) == LevelLoop(LeafLevel(leaves), <<LeafLevel(leaves)>>)

\* MerkleTree.__init__ taking the records themselves as the leaves.
MerkleTreeRawLeaves(data_) ==
    LET tr == _build_tree(data_)
    IN  [leaves |-> data_, tree |-> tr, root |-> Some(tr[Len(tr)][1])]

\* MerkleTree.__init__ for non-empty data: the object's fields.
MerkleTree(data_) ==
    LET lv == [k \in 1..Len(data_) |-> _hash(data_[k])]
        tr == _build_tree(lv)
    IN  [leaves |-> lv, tree |-> tr, root |-> Some(tr[Len(tr)][1])]

\* MerkleTree.get_root_hash, for a built tree.
get_root_hash(t) == t.root[1].hash

\* MerkleProof(proof, leaf, root, index)
MerkleProof(proof, leaf, root_, index) ==
    [proof |-> proof, leaf |-> leaf, root |-> root_, index |-> index]

\* The loop of generate_proof from level `level` (0-based) upwards.
RECURSIVE ProofLoop(_, _, _, _)
ProofLoop(t, level, current_index, proof) ==
    IF level >= Len(t.tree) - 1
    THEN proof
    ELSE LET current_level == t.tree[level + 1]
             is_right_node == current_index % 2 = 1
             sibling_index == IF is_right_node THEN current_index - 1
                                               ELSE current_index + 1
             emit == IF is_right_node THEN sibling_index >= 0
                                      ELSE sibling_index < Len(current_level)
         IN  ProofLoop(t, level + 1, current_index \div 2,
                       IF emit
                       THEN Append(proof, current_level[sibling_index + 1].hash)
                       ELSE proof)

\* MerkleTree.generate_proof: a MerkleProof, or the ValueError it raises.
generate_proof(t, leaf_index) ==
    IF leaf_index < 0 \/ leaf_index >= Len(t.leaves)
    THEN [raised |-> "Invalid leaf index"]
    ELSE [value |-> MerkleProof(ProofLoop(t, 0, leaf_index, <<>>),
                                t.leaves[leaf_index + 1],
                                get_root_hash(t),
                                leaf_index)]

\* The loop of verify_proof over the sibling hashes from position k (1-based).
RECURSIVE VerifyLoop(_, _, _, _)
VerifyLoop(proof, k, computed_hash, current_index) ==
    IF k > Len(proof)
    THEN computed_hash
    ELSE LET is_right_node == current_index % 2 = 1
             combined == IF is_right_node THEN proof[k] \o computed_hash
                                          ELSE computed_hash \o proof[k]
         IN  VerifyLoop(proof, k + 1, _hash(combined), current_index \div 2)

\* MerkleTree.verify_proof
verify_proof(merkle_proof) ==
    VerifyLoop(merkle_proof.proof, 1, merkle_proof.leaf, merkle_proof.index)
        = merkle_proof.root

\* MerkleTree.get_tree_info; the preview is the first 5 leaves.
PreviewLen == 5
get_tree_info(t) ==
    [total_leaves |-> Len(t.leaves),
     tree_depth   |-> Len(t.tree),
     root_hash    |-> get_root_hash(t),
     leaves       |-> SubSeq(t.leaves, 1,
                             IF Len(t.leaves) < PreviewLen THEN Len(t.leaves)
                                                           ELSE PreviewLen)]

\* ------------------------------------------------------------------ state
VARIABLES
    \* SpecTree: one MerkleTree object and one caller of it.
    data,      \* the record list handed to MerkleTree(data)
    leaves,    \* self.leaves
    tree,      \* self.tree
    root,      \* self.root
    phase,     \* "new", "built", or "failed" when __init__ raised
    mp,        \* the MerkleProof in the caller's hands (None or Some)
    origin,    \* how mp came to be: "generated", or the component changed
    verdict,   \* what verify_proof returned for mp (None or Some)
    err,       \* the message of the last ValueError, "" when none
    \* Spec: the donation service.
    db,        \* the Donation table, in primary-key order
    charities, \* the Charity table, in primary-key order
    clock,     \* created_at of the latest insert, in ticks
    inflight,  \* the requests that are between two database calls
    held,      \* what a client kept of its last get_merkle_proof answer
    req,       \* the request the last step worked on
    resp,      \* the response the last step sent, None when it sent none
    steps      \* the calls verify_donation_inclusion made in the last step

treeVars == <<data, leaves, tree, root, phase, mp, origin, verdict, err>>
svcVars  == <<db, charities, clock, inflight, held, req, resp, steps>>
vars     == <<data, leaves, tree, root, phase, mp, origin, verdict, err,
              db, charities, clock, inflight, held, req, resp, steps>>

\* The MerkleTree object held in the state.
self == [leaves |-> leaves, tree |-> tree, root |-> root]

\* ----------------------------------------------------- SpecTree: the engine
\* The record strings a caller builds trees from.
Records == {"A", "B"}

RECURSIVE SeqsUpTo(_, _)
SeqsUpTo(S, n) ==
    IF n = 0 THEN {<<>>}
    ELSE LET shorter == SeqsUpTo(S, n - 1)
         IN  shorter \cup {Append(q, e) : q \in {r \in shorter : Len(r) = n - 1}, e \in S}

\* Every node hash of the tree, all levels.
NodeHashes(tr) ==
    UNION {{tr[k][j].hash : j \in 1..Len(tr[k])} : k \in 1..Len(tr)}

SvcIdle ==
    /\ db = <<>> /\ charities = <<>> /\ clock = 0 /\ inflight = EmptyBag
    /\ held = None /\ req = None /\ resp = None /\ steps = <<>>

InitTree ==
    /\ data \in SeqsUpTo(Records, MaxLeaves)
    /\ leaves = <<>> /\ tree = <<>> /\ root = None
    /\ phase = "new" /\ mp = None /\ origin = "none" /\ verdict = None
    /\ err = ""
    /\ SvcIdle

\* MerkleTree(data): __init__ with its _build_tree.
Construct ==
    /\ phase = "new"
    /\ IF data = <<>>
       THEN /\ phase' = "failed"
            /\ err' = "Cannot build tree with empty data"
            /\ UNCHANGED <<leaves, tree, root>>
       ELSE /\ leaves' = MerkleTree(data).leaves
            /\ tree' = MerkleTree(data).tree
            /\ root' = MerkleTree(data).root
            /\ phase' = "built"
            /\ err' = ""
    /\ UNCHANGED <<data, mp, origin, verdict>>
    /\ UNCHANGED svcVars

\* tree.generate_proof(leaf_index)
GenerateProof(leaf_index) ==
    /\ phase = "built"
    /\ LET r == generate_proof(self, leaf_index)
       IN  IF "raised" \in DOMAIN r
           THEN /\ err' = r.raised
                /\ mp' = None /\ origin' = "none"
           ELSE /\ err' = ""
                /\ mp' = Some(r.value) /\ origin' = "generated"
    /\ verdict' = None
    /\ UNCHANGED <<data, leaves, tree, root, phase>>
    /\ UNCHANGED svcVars

\* MerkleTree.verify_proof(mp)
VerifyProof ==
    /\ mp # None /\ verdict = None
    /\ verdict' = Some(verify_proof(mp[1]))
    /\ UNCHANGED <<data, leaves, tree, root, phase, mp, origin, err>>
    /\ UNCHANGED svcVars

\* The values a tamperer puts in place of a hash: any node hash of the tree,
\* or the old value with one character appended.
Forged(old) == (NodeHashes(tree) \cup {old \o "0"}) \ {old}

\* A caller may change one component of a generated proof that verified.
CanTamper == mp # None /\ verdict = Some(TRUE) /\ origin = "generated"

\* The caller now holds the changed proof p, not yet verified.
Tampered(kind, p) ==
    /\ mp' = Some(p)
    /\ origin' = kind
    /\ verdict' = None
    /\ UNCHANGED <<data, leaves, tree, root, phase, err>>
    /\ UNCHANGED svcVars

TamperLeaf ==
    /\ CanTamper
    /\ \E v \in Forged(mp[1].leaf) :
         Tampered("leaf", [mp[1] EXCEPT !.leaf = v])

TamperSibling ==
    /\ CanTamper
    /\ \E k \in 1..Len(mp[1].proof) :
         \E v \in Forged(mp[1].proof[k]) :
           Tampered("sibling", [mp[1] EXCEPT !.proof[k] = v])

TamperRoot ==
    /\ CanTamper
    /\ \E v \in Forged(mp[1].root) :
         Tampered("root", [mp[1] EXCEPT !.root = v])

TamperIndex ==
    /\ CanTamper
    /\ \E i \in (-1..MaxLeaves) \ {mp[1].index} :
         Tampered("index", [mp[1] EXCEPT !.index = i])

NextTree ==
    \/ Construct
    \/ \E i \in -1..MaxLeaves : GenerateProof(i)
    \/ VerifyProof
    \/ TamperLeaf
    \/ TamperSibling
    \/ TamperRoot
    \/ TamperIndex

SpecTree == InitTree /\ [][NextTree]_vars

\* ------------------------------------------------- Spec: the donation service
\* Ticks of the model clock per second; created_at keeps sub-second time
\* and int(created_at.timestamp()) drops it.
TicksPerSecond == 2

\* The charity ids a request may name: every id a charity can get, and one
\* that is never a charity's.
RequestCharityIds == 1..(MaxCharities + 1)
DonorAddresses == {"0xd"}
Amounts == {5}
\* The server's worker threads: so many requests run at the same time.
Workers == {"w1", "w2"}
\* How many ticks after the latest insert a request reads timezone.now().
ArrivalDelays == {1}

\* The tx_hash values a request may carry.
TxHash(k) == "tx" \o IntToStr(k)

\* rest_framework's Response(data, status=...)
Response(body, status) == [status |-> status, body |-> body]

\* The canonical record string of DonationMerkleTree.__init__ and
\* get_donation_hash.
donation_str(donation) ==
    IntToStr(donation.id) \o ":" \o donation.donor_address \o ":"
        \o IntToStr(donation.amount) \o ":"
        \o IntToStr(donation.created_at \div TicksPerSecond) \o ":"
        \o donation.tx_hash

\* .order_by('created_at'), rows with equal times kept in primary-key order.
RECURSIVE order_by_created_at(_)
order_by_created_at(rows) ==
    IF rows = <<>> THEN <<>>
    ELSE LET h    == Head(rows)
             rest == order_by_created_at(Tail(rows))
         IN  SelectSeq(rest, LAMBDA r : r.created_at < h.created_at)
                 \o <<h>>
                 \o SelectSeq(rest, LAMBDA r : r.created_at >= h.created_at)

\* Donation.objects.filter(charity_id=..., confirmed=True).order_by('created_at')
confirmed_donations(rows, charity_id) ==
    order_by_created_at(
        SelectSeq(rows, LAMBDA r : r.charity_id = charity_id /\ r.confirmed))

\* DonationMerkleTree(donations): the MerkleTree over the record strings,
\* with the donations kept.
DonationMerkleTree(donations) ==
    LET t == MerkleTree([k \in 1..Len(donations) |-> donation_str(donations[k])])
    IN  [leaves |-> t.leaves, tree |-> t.tree, root |-> t.root,
         donations |-> donations]

\* create_charity_merkle_tree: None when the charity has no confirmed
\* donation, else Some(tree).
create_charity_merkle_tree(rows, charity_id) ==
    LET donations == confirmed_donations(rows, charity_id)
    IN  IF donations = <<>> THEN None ELSE Some(DonationMerkleTree(donations))

\* DonationMerkleTree.generate_donation_proof: None when the id is absent.
generate_donation_proof(t, donation_id) ==
    LET hits == {i \in 1..Len(t.donations) : t.donations[i].id = donation_id}
    IN  IF hits = {} THEN None
        ELSE LET first == CHOOSE i \in hits : \A j \in hits : i <= j
             IN  Some(generate_proof(t, first - 1).value)

\* The first key of the MerkleProof(...) construction the dict lacks.
RequiredFields == <<"proof", "leaf", "root", "index">>
FirstMissing(dict) ==
    LET missing == {k \in 1..Len(RequiredFields) :
                       RequiredFields[k] \notin DOMAIN dict}
    IN  IF missing = {} THEN None
        ELSE Some(RequiredFields[CHOOSE k \in missing : \A m \in missing : k <= m])

\* str(e) of the exception that reading provided_proof['proof'], ['leaf'],
\* ['root'], ['index'] raises, None when all four are read.  provided_proof
\* is None or Some(dict).
PayloadError(provided_proof) ==
    IF provided_proof = None
    THEN Some("'NoneType' object is not subscriptable")
    ELSE IF FirstMissing(provided_proof[1]) # None
    THEN Some("'" \o FirstMissing(provided_proof[1])[1] \o "'")
    ELSE None

\* verify_donation_inclusion with the root comparison dropped: the supplied
\* root is compared with itself.
verify_donation_inclusion_no_root_check(rows, charity_id, provided_proof) ==
    LET merkle_tree == create_charity_merkle_tree(rows, charity_id)
    IN  IF merkle_tree = None
        THEN [result |-> [verified |-> FALSE,
                          error |-> "No donations found for this charity"],
              steps |-> <<"create_charity_merkle_tree">>]
        ELSE IF PayloadError(provided_proof) # None
        THEN [result |-> [verified |-> FALSE,
                          error |-> PayloadError(provided_proof)[1]],
              steps |-> <<"create_charity_merkle_tree", "DonationMerkleTree",
                          "get_root_hash">>]
        ELSE LET p == provided_proof[1]
                 is_valid_proof == verify_proof(p)
             IN  [result |-> [verified      |-> is_valid_proof,
                              proof_valid   |-> is_valid_proof,
                              root_matches  |-> TRUE,
                              current_root  |-> get_root_hash(merkle_tree[1]),
                              provided_root |-> p.root,
                              tree_info     |-> get_tree_info(merkle_tree[1])],
                  steps |-> <<"create_charity_merkle_tree",
                              "DonationMerkleTree", "get_root_hash",
                              "verify_proof">>]

\* verify_donation_inclusion reading the payload before it looks for the
\* charity's donations.
verify_donation_inclusion_payload_first(rows, charity_id, provided_proof) ==
    IF PayloadError(provided_proof) # None
    THEN [result |-> [verified |-> FALSE,
                      error |-> PayloadError(provided_proof)[1]],
          steps |-> <<>>]
    ELSE LET merkle_tree == create_charity_merkle_tree(rows, charity_id)
         IN  IF merkle_tree = None
             THEN [result |-> [verified |-> FALSE,
                               error |-> "No donations found for this charity"],
                   steps |-> <<"create_charity_merkle_tree">>]
             ELSE LET p == provided_proof[1]
                      current_root == get_root_hash(merkle_tree[1])
                      is_valid_proof == verify_proof(p)
                      root_matches == p.root = current_root
                  IN  [result |-> [verified      |-> is_valid_proof /\ root_matches,
                                   proof_valid   |-> is_valid_proof,
                                   root_matches  |-> root_matches,
                                   current_root  |-> current_root,
                                   provided_root |-> p.root,
                                   tree_info     |-> get_tree_info(merkle_tree[1])],
                       steps |-> <<"create_charity_merkle_tree",
                                   "DonationMerkleTree", "get_root_hash",
                                   "verify_proof">>]

\* verify_donation_inclusion: the dict it returns, and the calls it made on
\* the way ("DonationMerkleTree" when the current tree was built).  The
\* exception of a bad payload is caught and reported as str(e).
verify_donation_inclusion(rows, charity_id, provided_proof) ==
    LET merkle_tree == create_charity_merkle_tree(rows, charity_id)
    IN  IF merkle_tree = None
        THEN [result |-> [verified |-> FALSE,
                          error |-> "No donations found for this charity"],
              steps |-> <<"create_charity_merkle_tree">>]
        ELSE IF PayloadError(provided_proof) # None
        THEN [result |-> [verified |-> FALSE,
                          error |-> PayloadError(provided_proof)[1]],
              steps |-> <<"create_charity_merkle_tree", "DonationMerkleTree",
                          "get_root_hash">>]
        ELSE LET p == provided_proof[1]
                 current_root == get_root_hash(merkle_tree[1])
                 is_valid_proof == verify_proof(p)
                 root_matches == p.root = current_root
             IN  [result |-> [verified      |-> is_valid_proof /\ root_matches,
                              proof_valid   |-> is_valid_proof,
                              root_matches  |-> root_matches,
                              current_root  |-> current_root,
                              provided_root |-> p.root,
                              tree_info     |-> get_tree_info(merkle_tree[1])],
                  steps |-> <<"create_charity_merkle_tree",
                              "DonationMerkleTree", "get_root_hash",
                              "verify_proof">>]

\* get_donation_merkle_info
get_donation_merkle_info(rows, charity_id) ==
    LET merkle_tree == create_charity_merkle_tree(rows, charity_id)
    IN  IF merkle_tree = None
        THEN [error |-> "No donations found"]
        ELSE [root_hash       |-> get_root_hash(merkle_tree[1]),
              total_donations |-> Len(merkle_tree[1].donations),
              tree_depth      |-> Len(merkle_tree[1].tree),
              created_at      |-> merkle_tree[1].donations[1].created_at]

TreeIdle ==
    /\ data = <<>> /\ leaves = <<>> /\ tree = <<>> /\ root = None
    /\ phase = "new" /\ mp = None /\ origin = "none" /\ verdict = None
    /\ err = ""

Init ==
    /\ db = <<>>
    /\ charities = <<>>
    /\ clock = 0
    /\ inflight = EmptyBag
    /\ held = None /\ req = None /\ resp = None /\ steps = <<>>
    /\ TreeIdle

\* The requests in flight with the request t added, taken out, and
\* replaced by u.
Started(t) == inflight (+) SetToBag({t})
Ended(t) == inflight (-) SetToBag({t})
Moved(t, u) == (inflight (-) SetToBag({t})) (+) SetToBag({u})

\* The names the charities are created with.
CharityName(k) == "charity" \o IntToStr(k)

\* POST charities/create/ : create_charity.  The new row takes the next
\* primary key and has raised nothing.  Of the Charity row the model keeps
\* the columns the donation handlers read or write: id, name and
\* raised_amount; update_charity_status and update_on_chain_id write other
\* columns.
create_charity(name) ==
    /\ Len(charities) < MaxCharities
    /\ charities' = Append(charities,
                           [id |-> Len(charities) + 1, name |-> name,
                            raised_amount |-> 0])
    /\ req' = [view |-> "create_charity"]
    /\ resp' = Response([id |-> Len(charities) + 1], 201)
    /\ steps' = <<>>
    /\ UNCHANGED <<db, clock, inflight, held>>
    /\ UNCHANGED treeVars

\* The row Donation.objects.create(...) stores; the id is the next primary
\* key and created_at the time of the insert.
NewDonation(charity_id, donor_address, amount, tx_hash, now) ==
    [id |-> Len(db) + 1, charity_id |-> charity_id,
     donor_address |-> donor_address, amount |-> amount, tx_hash |-> tx_hash,
     confirmed |-> TRUE, confirmed_at |-> now, created_at |-> now]

\* The record_donation requests that have not inserted their row yet.
BeforeCreate ==
    LET waiting == {t \in BagToSet(inflight) : t.pc \in {"tx_exists", "create"}}
    IN  BagCardinality([t \in waiting |-> inflight[t]])

\* POST donations/ : record_donation runs in four database calls with no
\* transaction around them, so requests of different workers interleave
\* between the calls.  First step: serializer.is_valid() and
\* Charity.objects.get(id=...); the request keeps the instance it loaded.
record_donation_get_charity(valid, validated_data) ==
    /\ BagCardinality(inflight) < Cardinality(Workers)
    /\ req' = [view |-> "record_donation"]
    /\ steps' = <<>>
    /\ IF ~valid
       THEN /\ resp' = Response([errors |-> "invalid"], 400)
            /\ inflight' = inflight
       ELSE IF validated_data.charity_id \notin DOMAIN charities
       THEN /\ resp' = Response([error |-> "Charity not found"], 400)
            /\ inflight' = inflight
       ELSE /\ Len(db) + BeforeCreate < MaxDonations
            /\ resp' = None
            /\ inflight' = Started([pc       |-> "tx_exists",
                                   data     |-> validated_data,
                                   charity  |-> charities[validated_data.charity_id],
                                   donation |-> None])
    /\ UNCHANGED <<db, charities, clock, held>>
    /\ UNCHANGED treeVars

\* Second step: Donation.objects.filter(tx_hash=...).exists()
record_donation_tx_exists(t) ==
    /\ t \in BagToSet(inflight)
    /\ t.pc = "tx_exists"
    /\ req' = [view |-> "record_donation"]
    /\ steps' = <<>>
    /\ IF \E k \in 1..Len(db) : db[k].tx_hash = t.data.tx_hash
       THEN /\ resp' = Response(
                  [error |-> "Donation with this transaction hash already exists"],
                  400)
            /\ inflight' = Ended(t)
       ELSE /\ resp' = None
            /\ inflight' = Moved(t, [t EXCEPT !.pc = "create"])
    /\ UNCHANGED <<db, charities, clock, held>>
    /\ UNCHANGED treeVars

\* Third step: Donation.objects.create(...).  When another request stored
\* the same tx_hash since the check, the insert either stores a second row
\* with it or, if the Donation model declares tx_hash unique, raises
\* IntegrityError and the request ends with status 500.
record_donation_create(t) ==
    /\ t \in BagToSet(inflight)
    /\ t.pc = "create"
    /\ req' = [view |-> "record_donation"]
    /\ steps' = <<>>
    /\ LET d == t.data
           donation == NewDonation(d.charity_id, d.donor_address, d.amount,
                                   d.tx_hash, clock + 1)
       IN  \/ /\ db' = Append(db, donation)
              /\ clock' = clock + 1
              /\ inflight' = Moved(t, [t EXCEPT !.pc = "save",
                                                !.donation = Some(donation)])
              /\ held' = IF held # None /\ held[1].charity_id = d.charity_id
                         THEN Some([held[1] EXCEPT !.stale = TRUE])
                         ELSE held
              /\ resp' = None
           \/ /\ \E k \in 1..Len(db) : db[k].tx_hash = d.tx_hash
              /\ resp' = Response([error |-> "IntegrityError"], 500)
              /\ inflight' = Ended(t)
              /\ UNCHANGED <<db, clock, held>>
    /\ UNCHANGED charities
    /\ UNCHANGED treeVars

\* Fourth step: charity.raised_amount += donation.amount; charity.save().
\* save() writes the instance the request loaded in its first step.
record_donation_save(t) ==
    /\ t \in BagToSet(inflight)
    /\ t.pc = "save"
    /\ req' = [view |-> "record_donation"]
    /\ steps' = <<>>
    /\ LET charity  == t.charity
           donation == t.donation[1]
       IN  /\ charities' = [charities EXCEPT ![charity.id] =
                               [charity EXCEPT !.raised_amount = @ + donation.amount]]
           /\ resp' = Response(donation, 201)
    /\ inflight' = Ended(t)
    /\ UNCHANGED <<db, clock, held>>
    /\ UNCHANGED treeVars

\* GET donations/<donation_id>/merkle-proof/ : get_merkle_proof makes three
\* database calls with no transaction around them.  First step:
\* Donation.objects.get(id=donation_id, confirmed=True).
get_merkle_proof_get_donation(donation_id) ==
    /\ BagCardinality(inflight) < Cardinality(Workers)
    /\ req' = [view |-> "get_merkle_proof"]
    /\ steps' = <<>>
    /\ LET found == {k \in 1..Len(db) : db[k].id = donation_id /\ db[k].confirmed}
       IN  IF found = {}
           THEN /\ resp' = Response([error |-> "Donation not found"], 404)
                /\ inflight' = inflight
           ELSE /\ resp' = None
                /\ inflight' = Started([pc          |-> "proof_charity",
                                       donation_id |-> donation_id,
                                       donation    |-> db[CHOOSE k \in found : TRUE]])
    /\ UNCHANGED <<db, charities, clock, held>>
    /\ UNCHANGED treeVars

\* Second step: donation.charity, the fetch of the row the foreign key
\* names; charity_id is its id.
get_merkle_proof_charity(t) ==
    /\ t \in BagToSet(inflight)
    /\ t.pc = "proof_charity"
    /\ req' = [view |-> "get_merkle_proof"]
    /\ steps' = <<>>
    /\ resp' = None
    /\ inflight' = Moved(t, [pc          |-> "proof_tree",
                             donation_id |-> t.donation_id,
                             donation    |-> t.donation,
                             charity_id  |-> charities[t.donation.charity_id].id])
    /\ UNCHANGED <<db, charities, clock, held>>
    /\ UNCHANGED treeVars

\* Third step: create_charity_merkle_tree(charity_id) reads the charity's
\* donations as they are now; the proof and the response follow from it.
get_merkle_proof_tree(t) ==
    /\ t \in BagToSet(inflight)
    /\ t.pc = "proof_tree"
    /\ req' = [view |-> "get_merkle_proof"]
    /\ steps' = <<>>
    /\ LET donation_id == t.donation_id
           donation    == t.donation
           charity_id  == t.charity_id
           merkle_tree == create_charity_merkle_tree(db, charity_id)
           proof       == IF merkle_tree = None THEN None
                          ELSE generate_donation_proof(merkle_tree[1], donation_id)
       IN  IF merkle_tree = None
           THEN /\ resp' = Response(
                      [error |-> "No confirmed donations found for this charity"],
                      404)
                /\ held' = held
           ELSE IF proof = None
           THEN /\ resp' = Response(
                      [error |-> "Donation not found in Merkle tree"], 404)
                /\ held' = held
           ELSE /\ resp' = Response(
                      [donation_id  |-> donation_id,
                       charity_id   |-> charity_id,
                       merkle_proof |-> proof[1],
                       tree_info    |-> get_tree_info(merkle_tree[1]),
                       donation_details |->
                           [donor_address |-> donation.donor_address,
                            amount        |-> IntToStr(donation.amount),
                            tx_hash       |-> donation.tx_hash,
                            created_at    |-> donation.created_at]],
                      200)
                /\ held' = Some([donation_id  |-> donation_id,
                                 charity_id   |-> charity_id,
                                 merkle_proof |-> proof[1],
                                 stale        |-> FALSE])
    /\ inflight' = Ended(t)
    /\ UNCHANGED <<db, charities, clock>>
    /\ UNCHANGED treeVars

\* Python's truth value of a request field that is None or Some(integer):
\* None and 0 are false.
TruthyInt(field) == field # None /\ field[1] # 0

\* Python's truth value of a request field that is None or Some(dict):
\* None and {} are false.
TruthyDict(field) == field # None /\ DOMAIN field[1] # {}

\* POST donations/verify-merkle-proof/ : verify_merkle_proof.  donation_id
\* and charity_id are None or Some(id), merkle_proof is None or Some(dict);
\* now is timezone.now() of the request.
verify_merkle_proof(request_data, now) ==
    /\ req' = [view |-> "verify_merkle_proof", data |-> request_data]
    /\ LET donation_id == request_data.donation_id
           charity_id  == request_data.charity_id
           proof_data  == request_data.merkle_proof
       IN  IF ~(TruthyInt(donation_id) /\ TruthyInt(charity_id)
                    /\ TruthyDict(proof_data))
           THEN /\ resp' = Response(
                      [error |-> "Missing required fields: donation_id, charity_id, merkle_proof"],
                      400)
                /\ steps' = <<>>
           ELSE LET r == verify_donation_inclusion(db, charity_id[1], proof_data)
                IN  /\ steps' = r.steps
                    /\ IF "raised" \in DOMAIN r
                       THEN resp' = Response(
                                [error |-> "Verification failed: " \o r.raised], 500)
                       ELSE resp' = Response(
                                [verification_result |-> r.result,
                                 donation_id |-> donation_id[1],
                                 charity_id  |-> charity_id[1],
                                 timestamp   |-> now],
                                200)
    /\ UNCHANGED <<db, charities, clock, inflight, held>>
    /\ UNCHANGED treeVars

\* GET donations/charity/<charity_id>/merkle-info/ : get_charity_merkle_info
\* makes two database calls with no transaction around them.  First step:
\* Charity.objects.get(id=charity_id).
get_charity_merkle_info_get_charity(charity_id) ==
    /\ BagCardinality(inflight) < Cardinality(Workers)
    /\ req' = [view |-> "get_charity_merkle_info"]
    /\ steps' = <<>>
    /\ IF charity_id \notin DOMAIN charities
       THEN /\ resp' = Response([error |-> "Charity not found"], 404)
            /\ inflight' = inflight
       ELSE /\ resp' = None
            /\ inflight' = Started([pc         |-> "info_tree",
                                   charity_id |-> charity_id,
                                   charity    |-> charities[charity_id]])
    /\ UNCHANGED <<db, charities, clock, held>>
    /\ UNCHANGED treeVars

\* Second step: get_donation_merkle_info(charity_id) reads the charity's
\* donations as they are now; the name is that of the instance loaded.
get_charity_merkle_info_tree(t) ==
    /\ t \in BagToSet(inflight)
    /\ t.pc = "info_tree"
    /\ req' = [view |-> "get_charity_merkle_info"]
    /\ steps' = <<>>
    /\ resp' = Response(
                [charity_id   |-> t.charity_id,
                 charity_name |-> t.charity.name,
                 merkle_info  |-> get_donation_merkle_info(db, t.charity_id)],
                200)
    /\ inflight' = Ended(t)
    /\ UNCHANGED <<db, charities, clock, held>>
    /\ UNCHANGED treeVars

\* ---- the requests a client sends
\* A dict with the keys `keys` of the proof p.
Payload(p, keys) == [f \in keys |-> p[f]]
AllFields == {"proof", "leaf", "root", "index"}

\* p itself, and p with one key left out.
WithMissing(p) ==
    {Payload(p, AllFields)}
        \cup {Payload(p, AllFields \ {f}) : f \in AllFields}

\* Proofs assembled from the hashes of the charity's current tree: a node
\* above the leaves as the "leaf" with the sibling path from that node up
\* and the node's position as index, or a leaf with its sibling path and as
\* index its position plus 2^(length of the path); the current root in
\* both.
ForgedPayloads(charity_id) ==
    LET merkle_tree == create_charity_merkle_tree(db, charity_id)
    IN  IF merkle_tree = None THEN {}
        ELSE LET t == merkle_tree[1]
             IN  UNION {
                   {MerkleProof(ProofLoop(t, level, j, <<>>),
                                t.tree[level + 1][j + 1].hash,
                                get_root_hash(t),
                                IF level = 0
                                THEN j + Pow2(Len(ProofLoop(t, level, j, <<>>)))
                                ELSE j)
                      : j \in 0..(Len(t.tree[level + 1]) - 1)}
                   : level \in 0..(Len(t.tree) - 1)}

\* A payload that owes nothing to any tree.
JunkProof == MerkleProof(<<>>, "x", "x", 0)

\* The non-empty proof dicts a client sends: forged ones, junk with and
\* without a missing key, and the proof it was given.
ClientPayloads(charity_id) ==
    ForgedPayloads(charity_id)
        \cup WithMissing(JunkProof)
        \cup (IF held = None THEN {} ELSE {held[1].merkle_proof})

\* Requests in which one of the three fields is absent or false.
FalsyFieldRequests ==
    LET full == [donation_id  |-> Some(1), charity_id |-> Some(1),
                 merkle_proof |-> Some(JunkProof)]
    IN  {[full EXCEPT !.donation_id = v] : v \in {None, Some(0)}}
        \cup {[full EXCEPT !.charity_id = v] : v \in {None, Some(0)}}
        \cup {[full EXCEPT !.merkle_proof = v] : v \in {None, Some(<<>>)}}

Next ==
    \/ create_charity(CharityName(Len(charities) + 1))
    \/ \E valid \in BOOLEAN, charity_id \in RequestCharityIds,
          donor_address \in DonorAddresses, amount \in Amounts,
          k \in 1..(Len(db) + BeforeCreate + 1) :
            record_donation_get_charity(
                valid,
                [charity_id |-> charity_id, donor_address |-> donor_address,
                 amount |-> amount, tx_hash |-> TxHash(k)])
    \/ \E t \in BagToSet(inflight) : record_donation_tx_exists(t)
    \/ \E t \in BagToSet(inflight) : record_donation_create(t)
    \/ \E t \in BagToSet(inflight) : record_donation_save(t)
    \/ \E donation_id \in 1..(Len(db) + 1) :
            get_merkle_proof_get_donation(donation_id)
    \/ \E t \in BagToSet(inflight) : get_merkle_proof_charity(t)
    \/ \E t \in BagToSet(inflight) : get_merkle_proof_tree(t)
    \/ \E charity_id \in RequestCharityIds, d \in ArrivalDelays :
         \E p \in ClientPayloads(charity_id) :
            verify_merkle_proof([donation_id  |-> Some(1),
                                 charity_id   |-> Some(charity_id),
                                 merkle_proof |-> Some(p)],
                                clock + d)
    \/ \E request_data \in FalsyFieldRequests :
            verify_merkle_proof(request_data, clock)
    \/ \E charity_id \in RequestCharityIds :
            get_charity_merkle_info_get_charity(charity_id)
    \/ \E t \in BagToSet(inflight) : get_charity_merkle_info_tree(t)

Spec == Init /\ [][Next]_vars

\* ------------------------------------------------------- claims: the engine
\* ceil(log2(n)) for n >= 1: the least k with 2^k >= n.
RECURSIVE CeilLog2From(_, _)
CeilLog2From(n, k) == IF Pow2(k) >= n THEN k ELSE CeilLog2From(n, k + 1)
CeilLog2(n) == CeilLog2From(n, 0)

\* C1: every proof generate_proof returns for a valid index of a built tree
\* is accepted by verify_proof.
GeneratedProofVerifies ==
    (origin = "generated" /\ verdict # None) => verdict = Some(TRUE)

\* C2: a proof that verified and then had exactly one component changed (the
\* leaf, one sibling hash, the root or the index) is rejected by verify_proof.
TamperedProofFails ==
    (origin \in {"leaf", "sibling", "root", "index"} /\ verdict # None)
        => verdict = Some(FALSE)

\* The part of C2 the code keeps: a changed leaf, sibling hash or root is
\* rejected.
TamperedHashFails ==
    (origin \in {"leaf", "sibling", "root"} /\ verdict # None)
        => verdict = Some(FALSE)

\* C4: the sibling list of every generated proof has tree depth - 1 entries.
ProofLengthIsDepthMinusOne ==
    (origin = "generated" /\ mp # None)
        => Len(mp[1].proof) = Len(tree) - 1

\* C7: every parent's hash is the hash of its two children's hashes
\* concatenated, left first, and of the left child's hash twice when that
\* child is the dangling last node of an odd level; with three leaves the
\* root is hash(hash(A+B) + hash(C+C)).
ParentHashRule ==
    phase = "built" =>
        /\ \A k \in 1..(Len(tree) - 1) :
             \A j \in 1..Len(tree[k + 1]) :
               /\ 2 * j - 1 <= Len(tree[k])
               /\ tree[k + 1][j].hash =
                    IF 2 * j <= Len(tree[k])
                    THEN _hash(tree[k][2 * j - 1].hash \o tree[k][2 * j].hash)
                    ELSE _hash(tree[k][2 * j - 1].hash \o tree[k][2 * j - 1].hash)
        /\ Len(data) = 3 =>
             root[1].hash = _hash(_hash(leaves[1] \o leaves[2])
                                  \o _hash(leaves[3] \o leaves[3]))
\* A built tree with an odd level above the leaves (5 leaves, then 3 nodes).
ParentHashRuleWitness ==
    /\ phase = "built"
    /\ Len(tree) >= 3
    /\ Len(tree[1]) % 2 = 1
    /\ Len(tree[2]) % 2 = 1 /\ Len(tree[2]) > 1

\* C8: each level after the first has ceil(previous / 2) nodes, the top level
\* has one node, and tree_depth is 1 for one record and 1 + ceil(log2(n))
\* for n > 1 records.
TreeShape ==
    phase = "built" =>
        /\ Len(tree[1]) = Len(data)
        /\ \A k \in 1..(Len(tree) - 1) :
             /\ 2 * Len(tree[k + 1]) >= Len(tree[k])
             /\ 2 * Len(tree[k + 1]) <= Len(tree[k]) + 1
        /\ Len(tree[Len(tree)]) = 1
        /\ get_tree_info(self).tree_depth =
             IF Len(data) = 1 THEN 1 ELSE 1 + CeilLog2(Len(data))
\* A built tree whose leaf count is odd and not a power of two.
TreeShapeWitness ==
    /\ phase = "built"
    /\ Len(data) = 5
    /\ get_tree_info(self).tree_depth = 4

\* C9: a tree built from one record has the record's hash as its root,
\* depth 1, and an empty sibling list in the proof for index 0.
SingleLeafTree ==
    (phase = "built" /\ Len(data) = 1) =>
        /\ get_root_hash(self) = _hash(data[1])
        /\ get_root_hash(self) = leaves[1]
        /\ get_tree_info(self).tree_depth = 1
        /\ generate_proof(self, 0).value.proof = <<>>
        /\ (origin = "generated" /\ mp # None) =>
             mp[1] = MerkleProof(<<>>, _hash(data[1]), _hash(data[1]), 0)
\* The proof for index 0 of a one-record tree has been generated.
SingleLeafTreeWitness ==
    /\ phase = "built" /\ Len(data) = 1
    /\ origin = "generated" /\ mp # None /\ mp[1].index = 0

\* ------------------------------------------------------ claims: the service
\* The last request was a verification request that passed the view's own
\* field check, so verify_donation_inclusion was called for it.
VerifyCalled ==
    /\ req # None /\ req.view = "verify_merkle_proof"
    /\ TruthyInt(req.data.donation_id)
    /\ TruthyInt(req.data.charity_id)
    /\ TruthyDict(req.data.merkle_proof)
ReqCharity == req.data.charity_id[1]
ReqPayload == req.data.merkle_proof[1]
VerificationResult == resp.body.verification_result
StepTaken(name) == \E k \in 1..Len(steps) : steps[k] = name

\* C3: a proof issued for a charity's donation, verified after a further
\* confirmed donation to that charity was recorded, gets root_matches =
\* false and verified = false.
StaleProofRootMismatch ==
    (/\ VerifyCalled
     /\ held # None
     /\ held[1].stale
     /\ ReqCharity = held[1].charity_id
     /\ ReqPayload = held[1].merkle_proof)
        => /\ resp.status = 200
           /\ "root_matches" \in DOMAIN VerificationResult
           /\ VerificationResult.root_matches = FALSE
           /\ VerificationResult.verified = FALSE
\* Such a stale proof was verified and was still valid in itself.
StaleProofRootMismatchWitness ==
    /\ VerifyCalled
    /\ held # None
    /\ held[1].stale
    /\ ReqCharity = held[1].charity_id
    /\ ReqPayload = held[1].merkle_proof
    /\ "proof_valid" \in DOMAIN VerificationResult
    /\ VerificationResult.proof_valid = TRUE
    /\ VerificationResult.root_matches = FALSE

\* C5: verify_donation_inclusion for a charity without confirmed donations
\* returns verified = false with the no-donations error, whatever the
\* payload (an absent one and one with missing fields included), and the
\* request is answered, not failed.
NoDonationsResult ==
    /\ (VerifyCalled /\ confirmed_donations(db, ReqCharity) = <<>>)
          => /\ resp.status = 200
             /\ VerificationResult =
                  [verified |-> FALSE,
                   error |-> "No donations found for this charity"]
    /\ \A c \in RequestCharityIds :
          confirmed_donations(db, c) = <<>> =>
            \A p \in {None} \cup {Some(q) : q \in ClientPayloads(c) \cup {<<>>}} :
              verify_donation_inclusion(db, c, p).result =
                [verified |-> FALSE,
                 error |-> "No donations found for this charity"]
\* A payload with a missing field was verified against a charity that has
\* no donation while another charity has some.
NoDonationsResultWitness ==
    /\ VerifyCalled
    /\ confirmed_donations(db, ReqCharity) = <<>>
    /\ ReqCharity \in DOMAIN charities
    /\ DOMAIN ReqPayload # AllFields
    /\ db # <<>>

\* C6: a verification request whose payload is absent or lacks a required
\* field gets a client-input error before verification: no tree is built,
\* verify_proof is not run, and no verification result is produced.
MalformedRejectedEarly ==
    (/\ req # None /\ req.view = "verify_merkle_proof"
     /\ TruthyInt(req.data.donation_id)
     /\ TruthyInt(req.data.charity_id)
     /\ (\/ req.data.merkle_proof = None
         \/ DOMAIN req.data.merkle_proof[1] # AllFields))
        => /\ resp.status = 400
           /\ ~StepTaken("DonationMerkleTree")
           /\ ~StepTaken("verify_proof")
           /\ "verification_result" \notin DOMAIN resp.body

\* C10: a payload reported verified = true carries the leaf hash of a
\* confirmed donation of the charity and that donation's position as index.
VerifiedMeansDonationLeaf ==
    (/\ VerifyCalled
     /\ resp.status = 200
     /\ VerificationResult.verified)
        => LET donations == confirmed_donations(db, ReqCharity)
           IN  /\ ReqPayload.index \in 0..(Len(donations) - 1)
               /\ ReqPayload.leaf =
                    _hash(donation_str(donations[ReqPayload.index + 1]))
====
